---- MODULE Spec2Model ----
(***************************************************************************)
(* Model of the CQL RESULT-frame deserializer of                           *)
(* scylla/src/frame/response/result.rs.                                    *)
(*                                                                         *)
(* The decoder is a pure function of a cursor (&mut &[u8]).  Every deser_* *)
(* function is an operator from the remaining bytes to a result record     *)
(*   [st, v, rest, err]                                                    *)
(* where st is "Ok", "Err" (a ParseError returned through `?`) or "Panic"  *)
(* (a failed assert!, an out-of-range slice index, an out-of-range chrono  *)
(* construction), v is the decoded value, rest is the cursor after the     *)
(* call and err the ParseError.                                            *)
(*                                                                         *)
(* Bytes are 0..255, buffers and strings are sequences of bytes.           *)
(* 64-bit integers are written as three base-2^24 digits <<top, mid, low>> *)
(* (top is the signed or unsigned 16 high bits), since they exceed the     *)
(* range of the model checker's integers.                                  *)
(***************************************************************************)
EXTENDS Integers, Sequences, FiniteSets, TLC

VARIABLES op, input, typ, ghost, ret,      \* a call of the deserializer
          pc, next_i, permit, sem, task, drained  \* examples/test-types.rs

decoder_vars == <<op, input, typ, ghost, ret>>
example_vars == <<pc, next_i, permit, sem, task, drained>>
vars == <<op, input, typ, ghost, ret, pc, next_i, permit, sem, task, drained>>

----------------------------------------------------------------------------
(* Results and errors (frame_errors::ParseError)                           *)

NoErr == [kind |-> "none", id |-> 0]
ShortRead == [kind |-> "ShortRead", id |-> 0]
BadData == [kind |-> "BadData", id |-> 0]
TypeNotImplemented(id) == [kind |-> "TypeNotImplemented", id |-> id]

NoVal == [c |-> "NoVal"]

Ok(v, rest) == [st |-> "Ok", v |-> v, rest |-> rest, err |-> NoErr]
Err(e, rest) == [st |-> "Err", v |-> NoVal, rest |-> rest, err |-> e]
Panic(rest) == [st |-> "Panic", v |-> NoVal, rest |-> rest, err |-> NoErr]

(* `?` and unwinding: a failure of a callee is the failure of the caller;  *)
(* the value under construction is dropped.                                *)
Fail(r) == [st |-> r.st, v |-> NoVal, rest |-> r.rest, err |-> r.err]
FailAt(r, rest) == [st |-> r.st, v |-> NoVal, rest |-> rest, err |-> r.err]

None == [some |-> FALSE]
Some(v) == [some |-> TRUE, v |-> v]

Take(buf, n) == SubSeq(buf, 1, n)
Drop(buf, n) == SubSeq(buf, n + 1, Len(buf))

----------------------------------------------------------------------------
(* Big-endian integers                                                     *)

Signed8(b) == IF b >= 128 THEN b - 256 ELSE b

U16(b) == b[1] * 256 + b[2]
S16(b) == Signed8(b[1]) * 256 + b[2]
U24(b) == b[1] * 65536 + b[2] * 256 + b[3]
S32(b) == Signed8(b[1]) * 16777216 + b[2] * 65536 + b[3] * 256 + b[4]
S64(b) == <<S16(SubSeq(b, 1, 2)), U24(SubSeq(b, 3, 5)), U24(SubSeq(b, 6, 8))>>
U64(b) == <<U16(SubSeq(b, 1, 2)), U24(SubSeq(b, 3, 5)), U24(SubSeq(b, 6, 8))>>

(* x <= y on three-digit numbers *)
Leq64(x, y) ==
    \/ x[1] < y[1]
    \/ x[1] = y[1] /\ x[2] < y[2]
    \/ x[1] = y[1] /\ x[2] = y[2] /\ x[3] <= y[3]

----------------------------------------------------------------------------
(* str::from_utf8 and <[u8]>::is_ascii                                     *)

is_ascii(b) == \A i \in 1..Len(b) : b[i] < 128

IsCont(x) == x >= 128 /\ x <= 191

RECURSIVE utf8_from(_, _)
utf8_from(b, i) ==
    IF i > Len(b) THEN TRUE
    ELSE LET x == b[i]
             n == Len(b) - i
         IN  IF x < 128 THEN utf8_from(b, i + 1)
             ELSE IF x >= 194 /\ x <= 223
               THEN n >= 1 /\ IsCont(b[i + 1]) /\ utf8_from(b, i + 2)
             ELSE IF x >= 224 /\ x <= 239
               THEN /\ n >= 2
                    /\ IF x = 224 THEN b[i + 1] >= 160 /\ b[i + 1] <= 191
                       ELSE IF x = 237 THEN b[i + 1] >= 128 /\ b[i + 1] <= 159
                       ELSE IsCont(b[i + 1])
                    /\ IsCont(b[i + 2])
                    /\ utf8_from(b, i + 3)
             ELSE IF x >= 240 /\ x <= 244
               THEN /\ n >= 3
                    /\ IF x = 240 THEN b[i + 1] >= 144 /\ b[i + 1] <= 191
                       ELSE IF x = 244 THEN b[i + 1] >= 128 /\ b[i + 1] <= 143
                       ELSE IsCont(b[i + 1])
                    /\ IsCont(b[i + 2])
                    /\ IsCont(b[i + 3])
                    /\ utf8_from(b, i + 4)
             ELSE FALSE

from_utf8(b) == IF utf8_from(b, 1) THEN Ok(b, <<>>) ELSE Err(BadData, <<>>)

----------------------------------------------------------------------------
(* frame::types, the primitive codec.  Each read is the composition of the *)
(* steps of its body; the result of a step is handed to the next one as an *)
(* argument.                                                               *)

IsOk(r) == r.st = "Ok"

read_short(buf) ==
    IF Len(buf) < 2 THEN Err(ShortRead, buf)
    ELSE Ok(U16(buf), Drop(buf, 2))

read_int(buf) ==
    IF Len(buf) < 4 THEN Err(ShortRead, buf)
    ELSE Ok(S32(buf), Drop(buf, 4))

(* TryFrom<i32> for usize through `?`, and the sign test of read_int_length *)
try_into_usize(r) ==
    IF ~IsOk(r) THEN r
    ELSE IF r.v < 0 THEN Err(BadData, r.rest)
    ELSE r

read_int_length(buf) == try_into_usize(read_int(buf))

(* the l.v bytes after a length l that was read *)
take_raw(l) ==
    IF ~IsOk(l) THEN l
    ELSE IF Len(l.rest) < l.v THEN Err(ShortRead, l.rest)
    ELSE Ok(Take(l.rest, l.v), Drop(l.rest, l.v))

take_opt(l) ==
    IF ~IsOk(l) THEN l
    ELSE IF l.v < 0 THEN Ok(None, l.rest)
    ELSE IF Len(l.rest) < l.v THEN Err(ShortRead, l.rest)
    ELSE Ok(Some(Take(l.rest, l.v)), Drop(l.rest, l.v))

take_str(l) ==
    IF ~IsOk(l) THEN l
    ELSE IF Len(l.rest) < l.v THEN Err(ShortRead, l.rest)
    ELSE IF ~IsOk(from_utf8(Take(l.rest, l.v))) THEN Err(BadData, l.rest)
    ELSE Ok(Take(l.rest, l.v), Drop(l.rest, l.v))

(* [string]: short length, then that many UTF-8 bytes *)
read_string(buf) == take_str(read_short(buf))

(* [bytes] that must be present: int length >= 0, then the bytes *)
read_bytes(buf) == take_raw(read_int_length(buf))

(* [bytes]: a negative length is None *)
read_bytes_opt(buf) == take_opt(read_int(buf))

----------------------------------------------------------------------------
(* ColumnType                                                              *)

Simple(t) == [t |-> t]
ListOf(a) == [t |-> "List", a |-> a]
SetOf(a) == [t |-> "Set", a |-> a]
MapOf(k, v) == [t |-> "Map", k |-> k, v |-> v]
UdtOf(ks, name, fields) ==
    [t |-> "UserDefinedType", type_name |-> name, keyspace |-> ks,
     field_types |-> fields]
TupleOf(ts) == [t |-> "Tuple", types |-> ts]

TableSpec(ks, table) == [ks_name |-> ks, table_name |-> table]

table_spec_2(ks, tn) ==
    IF ~IsOk(tn) THEN Fail(tn) ELSE Ok(TableSpec(ks.v, tn.v), tn.rest)
table_spec_1(ks) ==
    IF ~IsOk(ks) THEN Fail(ks) ELSE table_spec_2(ks, read_string(ks.rest))
deser_table_spec(buf) == table_spec_1(read_string(buf))

(* the arm `id => return Err(ParseError::TypeNotImplemented(id))` *)
unknown_type_Mutant(id, rest) == Err(BadData, rest)
unknown_type(id, rest) == Err(TypeNotImplemented(id), rest)

SimpleTag(id) ==
    CASE id = 1 -> "Ascii"
      [] id = 2 -> "BigInt"
      [] id = 4 -> "Boolean"
      [] id = 5 -> "Counter"
      [] id = 9 -> "Int"
      [] id = 11 -> "Timestamp"
      [] id = 13 -> "Text"
      [] id = 16 -> "Inet"
      [] id = 17 -> "Date"
      [] id = 18 -> "Time"
      [] id = 19 -> "SmallInt"
      [] id = 20 -> "TinyInt"
      [] OTHER -> "none"

RECURSIVE deser_type(_)
RECURSIVE type_of_tag(_)
RECURSIVE type_list(_, _)
RECURSIVE type_map_key(_)
RECURSIVE type_map_val(_, _)
RECURSIVE type_udt_1(_)
RECURSIVE type_udt_2(_, _)
RECURSIVE type_udt_3(_, _, _)
RECURSIVE type_udt_4(_, _, _)
RECURSIVE type_tuple_1(_)
RECURSIVE type_tuple_2(_)
RECURSIVE deser_type_fields(_, _, _)
RECURSIVE type_field_1(_, _, _)
RECURSIVE type_field_2(_, _, _, _)
RECURSIVE deser_type_tuple(_, _, _)
RECURSIVE type_tuple_next(_, _, _)

deser_type(buf) == type_of_tag(read_short(buf))

(* match id { ... } *)
type_of_tag(id) ==
    IF ~IsOk(id) THEN Fail(id)
    ELSE IF SimpleTag(id.v) # "none" THEN Ok(Simple(SimpleTag(id.v)), id.rest)
    ELSE IF id.v = 32 \/ id.v = 34 THEN type_list(id.v, deser_type(id.rest))
    ELSE IF id.v = 33 THEN type_map_key(deser_type(id.rest))
    ELSE IF id.v = 48 THEN type_udt_1(read_string(id.rest))
    ELSE IF id.v = 49 THEN type_tuple_1(read_short(id.rest))
    ELSE unknown_type(id.v, id.rest)

(* 0x0020 => List(Box::new(deser_type(buf)?)), 0x0022 => Set(...) *)
type_list(id, a) ==
    IF ~IsOk(a) THEN Fail(a)
    ELSE Ok(IF id = 32 THEN ListOf(a.v) ELSE SetOf(a.v), a.rest)

(* 0x0021 => Map(Box::new(deser_type(buf)?), Box::new(deser_type(buf)?)) *)
type_map_key(k) ==
    IF ~IsOk(k) THEN Fail(k) ELSE type_map_val(k, deser_type(k.rest))
type_map_val(k, v) ==
    IF ~IsOk(v) THEN Fail(v) ELSE Ok(MapOf(k.v, v.v), v.rest)

(* 0x0030: keyspace, type name, fields_size, then the fields *)
type_udt_1(ks) ==
    IF ~IsOk(ks) THEN Fail(ks) ELSE type_udt_2(ks, read_string(ks.rest))
type_udt_2(ks, tn) ==
    IF ~IsOk(tn) THEN Fail(tn) ELSE type_udt_3(ks, tn, read_short(tn.rest))
type_udt_3(ks, tn, n) ==
    IF ~IsOk(n) THEN Fail(n)
    ELSE type_udt_4(ks, tn, deser_type_fields(n.rest, n.v, <<>>))
type_udt_4(ks, tn, fs) ==
    IF ~IsOk(fs) THEN Fail(fs) ELSE Ok(UdtOf(ks.v, tn.v, fs.v), fs.rest)

(* for _ in 0..fields_size { read_string; deser_type; push } *)
deser_type_fields(buf, n, acc) ==
    IF n = 0 THEN Ok(acc, buf) ELSE type_field_1(n, acc, read_string(buf))
type_field_1(n, acc, fname) ==
    IF ~IsOk(fname) THEN Fail(fname)
    ELSE type_field_2(n, acc, fname, deser_type(fname.rest))
type_field_2(n, acc, fname, ft) ==
    IF ~IsOk(ft) THEN Fail(ft)
    ELSE deser_type_fields(ft.rest, n - 1, Append(acc, <<fname.v, ft.v>>))

(* 0x0031: len, then for _ in 0..len { types.push(deser_type(buf)?) } *)
type_tuple_1(n) ==
    IF ~IsOk(n) THEN Fail(n)
    ELSE type_tuple_2(deser_type_tuple(n.rest, n.v, <<>>))
type_tuple_2(ts) ==
    IF ~IsOk(ts) THEN Fail(ts) ELSE Ok(TupleOf(ts.v), ts.rest)
deser_type_tuple(buf, n, acc) ==
    IF n = 0 THEN Ok(acc, buf) ELSE type_tuple_next(n, acc, deser_type(buf))
type_tuple_next(n, acc, t) ==
    IF ~IsOk(t) THEN Fail(t)
    ELSE deser_type_tuple(t.rest, n - 1, Append(acc, t.v))

----------------------------------------------------------------------------
(* CQLValue                                                                *)

Val(c, x) == [c |-> c, x |-> x]

(* chrono: NaiveDate spans -262144-01-01 ..= 262143-12-31, counted here in *)
(* days from 1970-01-01.  `Utc.timestamp(0, 0) + Duration::days(d)` panics *)
(* ("`DateTime + Duration` overflowed") outside that span.                 *)
date_in_range(days) == days >= -96465659 /\ days <= 95026601

(* `Utc.timestamp_millis(ms)` unwraps timestamp_millis_opt: it panics when *)
(* the day of `ms` is outside the NaiveDate span.                          *)
MinTimestampMillis == <<-30, 6533644, 7064576>>
MaxTimestampMillis == <<29, 2832656, 6625279>>
timestamp_in_range(ms) ==
    Leq64(MinTimestampMillis, ms) /\ Leq64(ms, MaxTimestampMillis)

(* String's Ord: bytewise lexicographic *)
StrLess(a, b) ==
    \E i \in 1..Len(b) :
        /\ \A j \in 1..(i - 1) : j <= Len(a) /\ a[j] = b[j]
        /\ (i > Len(a) \/ a[i] < b[i])

(* BTreeMap<String, _>::insert on a map kept as its key-ordered sequence   *)
(* of <<key, value>>: an equal key is overwritten in place.                *)
btree_insert(m, k, v) ==
    IF \E i \in 1..Len(m) : m[i][1] = k
    THEN [i \in 1..Len(m) |-> IF m[i][1] = k THEN <<k, v>> ELSE m[i]]
    ELSE Take(m, Cardinality({i \in 1..Len(m) : StrLess(m[i][1], k)}))
         \o <<(<<k, v>>)>>
         \o Drop(m, Cardinality({i \in 1..Len(m) : StrLess(m[i][1], k)}))

RECURSIVE deser_cql_value(_, _)
RECURSIVE deser_element(_, _)
RECURSIVE deser_scoped(_, _)
RECURSIVE deser_element_opt(_, _)
RECURSIVE deser_scoped_opt(_, _)
RECURSIVE deser_seq(_, _)
RECURSIVE deser_seq_loop(_, _, _, _)
RECURSIVE deser_seq_next(_, _, _, _)
RECURSIVE deser_map(_, _)
RECURSIVE deser_map_loop(_, _, _, _, _)
RECURSIVE deser_map_key(_, _, _, _, _)
RECURSIVE deser_map_val(_, _, _, _, _, _)
RECURSIVE deser_udt_loop(_, _, _, _)
RECURSIVE deser_udt_next(_, _, _, _)
RECURSIVE deser_tuple_loop(_, _, _, _)
RECURSIVE deser_tuple_next(_, _, _, _)

(* the result of a nested decode, seen from the enclosing cursor *)
element_value(r, rest) ==
    IF ~IsOk(r) THEN FailAt(r, rest) ELSE Ok(r.v, rest)
element_some(r, rest) ==
    IF ~IsOk(r) THEN FailAt(r, rest) ELSE Ok(Some(r.v), rest)
(* the nested decode moving the enclosing cursor itself *)
element_unscoped(r) ==
    IF ~IsOk(r) THEN Fail(r) ELSE Ok(r.v, r.rest)

(* let mut b = types::read_bytes(buf)?; deser_cql_value(t, &mut b)?        *)
deser_element(t, buf) == deser_scoped(t, read_bytes(buf))

(* The same with the nested call given the enclosing cursor from the       *)
(* element's first byte on, not a cursor that ends with the element.       *)
deser_scoped_Mutant(t, b) ==
    IF ~IsOk(b) THEN Fail(b)
    ELSE element_unscoped(deser_cql_value(t, b.v \o b.rest))
deser_scoped(t, b) ==
    IF ~IsOk(b) THEN Fail(b)
    ELSE element_value(deser_cql_value(t, b.v), b.rest)

(* if let Some(mut b) = types::read_bytes_opt(buf)?                        *)
(*     { Some(deser_cql_value(t, &mut b)?) } else { None }                 *)
deser_element_opt(t, buf) == deser_scoped_opt(t, read_bytes_opt(buf))
deser_scoped_opt(t, b) ==
    IF ~IsOk(b) THEN Fail(b)
    ELSE IF ~b.v.some THEN Ok(None, b.rest)
    ELSE element_some(deser_cql_value(t, b.v.v), b.rest)

(* CQLValue::List(res), ::Set(res), ::Map(res), ::Tuple(res) *)
wrap_value(c, res) ==
    IF ~IsOk(res) THEN Fail(res) ELSE Ok(Val(c, res.v), res.rest)

(* CQLValue::UserDefinedType { keyspace, type_name, fields } *)
wrap_udt(t, res) ==
    IF ~IsOk(res) THEN Fail(res)
    ELSE Ok(Val("UserDefinedType",
                [keyspace |-> t.keyspace, type_name |-> t.type_name,
                 fields |-> res.v]),
            res.rest)

(* List and Set: len, then for _ in 0..len { res.push(element) } *)
deser_seq(t, len) ==
    IF ~IsOk(len) THEN Fail(len)
    ELSE wrap_value(t.t, deser_seq_loop(t.a, len.rest, len.v, <<>>))
deser_seq_loop(t, buf, n, acc) ==
    IF n = 0 THEN Ok(acc, buf)
    ELSE deser_seq_next(t, n, acc, deser_element(t, buf))
deser_seq_next(t, n, acc, e) ==
    IF ~IsOk(e) THEN Fail(e)
    ELSE deser_seq_loop(t, e.rest, n - 1, Append(acc, e.v))

(* Map: len, then for _ in 0..len { key; val; res.push((key, val)) } *)
deser_map(t, len) ==
    IF ~IsOk(len) THEN Fail(len)
    ELSE wrap_value("Map", deser_map_loop(t.k, t.v, len.rest, len.v, <<>>))
deser_map_loop(kt, vt, buf, n, acc) ==
    IF n = 0 THEN Ok(acc, buf)
    ELSE deser_map_key(kt, vt, n, acc, deser_element(kt, buf))
deser_map_key(kt, vt, n, acc, k) ==
    IF ~IsOk(k) THEN Fail(k)
    ELSE deser_map_val(kt, vt, n, acc, k, deser_element(vt, k.rest))
deser_map_val(kt, vt, n, acc, k, v) ==
    IF ~IsOk(v) THEN Fail(v)
    ELSE deser_map_loop(kt, vt, v.rest, n - 1, Append(acc, <<k.v, v.v>>))

(* UserDefinedType: for (field_name, field_type) in field_types            *)
(*     { fields.insert(field_name.clone(), field_value) }                  *)
deser_udt_loop(fts, i, buf, fields) ==
    IF i > Len(fts) THEN Ok(fields, buf)
    ELSE deser_udt_next(fts, i, fields, deser_element_opt(fts[i][2], buf))
deser_udt_next(fts, i, fields, f) ==
    IF ~IsOk(f) THEN Fail(f)
    ELSE deser_udt_loop(fts, i + 1, f.rest, btree_insert(fields, fts[i][1], f.v))

(* Tuple: for type_name in type_names { res.push(element) } *)
deser_tuple_loop(ts, i, buf, acc) ==
    IF i > Len(ts) THEN Ok(acc, buf)
    ELSE deser_tuple_next(ts, i, acc, deser_element(ts[i], buf))
deser_tuple_next(ts, i, acc, e) ==
    IF ~IsOk(e) THEN Fail(e)
    ELSE deser_tuple_loop(ts, i + 1, e.rest, Append(acc, e.v))

(* `if buf.len() != width { return Err(BadData) }` of a fixed-width scalar *)
fixed_width(buf, width) == Len(buf) = width

deser_cql_value(t, buf) ==
    CASE t.t = "Ascii" ->
            IF ~is_ascii(buf) THEN Err(BadData, buf)
            ELSE IF ~IsOk(from_utf8(buf)) THEN Err(BadData, buf)
            ELSE Ok(Val("Ascii", buf), buf)
      [] t.t = "Int" ->
            IF ~fixed_width(buf, 4) THEN Err(BadData, buf)
            ELSE Ok(Val("Int", S32(buf)), Drop(buf, 4))
      [] t.t = "BigInt" ->
            IF ~fixed_width(buf, 8) THEN Err(BadData, buf)
            ELSE Ok(Val("BigInt", S64(buf)), Drop(buf, 8))
      [] t.t = "Boolean" ->
            IF ~fixed_width(buf, 1) THEN Err(BadData, buf)
            ELSE Ok(Val("Boolean", Signed8(buf[1]) > 0), Drop(buf, 1))
      [] t.t = "Counter" ->
            IF ~fixed_width(buf, 8) THEN Err(BadData, buf)
            ELSE Ok(Val("Counter", U64(buf)), Drop(buf, 8))
      [] t.t = "SmallInt" ->
            IF ~fixed_width(buf, 2) THEN Err(BadData, buf)
            ELSE Ok(Val("SmallInt", S16(buf)), Drop(buf, 2))
      [] t.t = "TinyInt" ->
            IF ~fixed_width(buf, 1) THEN Err(BadData, buf)
            ELSE Ok(Val("TinyInt", Signed8(buf[1])), Drop(buf, 1))
      [] t.t = "Text" ->
            IF ~IsOk(from_utf8(buf)) THEN Err(BadData, buf)
            ELSE Ok(Val("Text", buf), buf)
      [] t.t = "Inet" ->
            IF Len(buf) = 4 THEN Ok(Val("Inet", Take(buf, 4)), Drop(buf, 4))
            ELSE IF Len(buf) = 16 THEN Ok(Val("Inet", Take(buf, 16)), Drop(buf, 16))
            ELSE Err(BadData, buf)
      [] t.t = "Date" ->
            IF ~fixed_width(buf, 4) THEN Err(BadData, buf)
            ELSE IF ~date_in_range(S32(buf)) THEN Panic(Drop(buf, 4))
            ELSE Ok(Val("Date", S32(buf)), Drop(buf, 4))
      [] t.t = "Time" ->
            IF ~fixed_width(buf, 8) THEN Err(BadData, buf)
            ELSE Ok(Val("Time", S64(buf)), Drop(buf, 8))
      [] t.t = "Timestamp" ->
            IF ~fixed_width(buf, 8) THEN Err(BadData, buf)
            ELSE IF ~timestamp_in_range(S64(buf)) THEN Panic(Drop(buf, 8))
            ELSE Ok(Val("Timestamp", S64(buf)), Drop(buf, 8))
      [] t.t = "List" \/ t.t = "Set" ->
            deser_seq(t, try_into_usize(read_int(buf)))
      [] t.t = "Map" ->
            deser_map(t, try_into_usize(read_int(buf)))
      [] t.t = "UserDefinedType" ->
            wrap_udt(t, deser_udt_loop(t.field_types, 1, buf, <<>>))
      [] t.t = "Tuple" ->
            wrap_value("Tuple", deser_tuple_loop(t.types, 1, buf, <<>>))

----------------------------------------------------------------------------
(* Result metadata                                                         *)

(* flags & mask != 0, for a mask of one bit, on a two's-complement i32 *)
FlagSet(flags, mask) == (flags \div mask) % 2 = 1

ColumnSpec(table_spec, name, t) ==
    [table_spec |-> table_spec, name |-> name, typ |-> t]

RECURSIVE col_specs_loop(_, _, _, _)
RECURSIVE col_spec_1(_, _, _, _)
RECURSIVE col_spec_2(_, _, _, _, _)
RECURSIVE col_spec_3(_, _, _, _, _, _)

(* for _ in 0..col_count { table_spec; name; typ; col_specs.push(..) } *)
col_specs_loop(buf, global_table_spec, n, acc) ==
    IF n = 0 THEN Ok(acc, buf)
    ELSE col_spec_1(global_table_spec, n, acc,
                    IF global_table_spec.some
                    THEN Ok(global_table_spec.v, buf)
                    ELSE deser_table_spec(buf))
col_spec_1(gts, n, acc, ts) ==
    IF ~IsOk(ts) THEN Fail(ts)
    ELSE col_spec_2(gts, n, acc, ts, read_string(ts.rest))
col_spec_2(gts, n, acc, ts, name) ==
    IF ~IsOk(name) THEN Fail(name)
    ELSE col_spec_3(gts, n, acc, ts, name, deser_type(name.rest))
col_spec_3(gts, n, acc, ts, name, t) ==
    IF ~IsOk(t) THEN Fail(t)
    ELSE col_specs_loop(t.rest, gts, n - 1,
                        Append(acc, ColumnSpec(ts.v, name.v, t.v)))

deser_col_specs(buf, global_table_spec, col_count) ==
    col_specs_loop(buf, global_table_spec, col_count, <<>>)

ResultMetadata(col_count, paging_state, col_specs) ==
    [col_count |-> col_count, paging_state |-> paging_state,
     col_specs |-> col_specs]

some_of(r) == IF ~IsOk(r) THEN Fail(r) ELSE Ok(Some(r.v), r.rest)

(* if has_more_pages { Some(types::read_bytes(buf)?...) } else { None } *)
paging_state_of(buf, has_more_pages) ==
    IF has_more_pages THEN some_of(read_bytes(buf)) ELSE Ok(None, buf)

(* if global_tables_spec { Some(deser_table_spec(buf)?) } else { None } *)
global_table_spec_of(buf, global_tables_spec) ==
    IF global_tables_spec THEN some_of(deser_table_spec(buf)) ELSE Ok(None, buf)

result_metadata_5(col_count, paging_state, col_specs) ==
    IF ~IsOk(col_specs) THEN Fail(col_specs)
    ELSE Ok(ResultMetadata(col_count, paging_state, col_specs.v), col_specs.rest)

result_metadata_4(col_count, paging_state, gts) ==
    IF ~IsOk(gts) THEN Fail(gts)
    ELSE result_metadata_5(col_count, paging_state,
                           deser_col_specs(gts.rest, gts.v, col_count))

(* The same step with no_metadata honoured only when global_tables_spec    *)
(* is clear.                                                               *)
result_metadata_3_Mutant(flags, col_count, ps) ==
    IF ~IsOk(ps) THEN Fail(ps)
    ELSE IF FlagSet(flags, 4) /\ ~FlagSet(flags, 1)
         THEN Ok(ResultMetadata(col_count, ps.v, <<>>), ps.rest)
    ELSE result_metadata_4(col_count, ps.v,
                           global_table_spec_of(ps.rest, FlagSet(flags, 1)))

(* if no_metadata { return Ok(ResultMetadata { col_specs: vec![] , .. }) } *)
(* let global_table_spec = ...                                             *)
result_metadata_3(flags, col_count, ps) ==
    IF ~IsOk(ps) THEN Fail(ps)
    ELSE IF FlagSet(flags, 4)
         THEN Ok(ResultMetadata(col_count, ps.v, <<>>), ps.rest)
    ELSE result_metadata_4(col_count, ps.v,
                           global_table_spec_of(ps.rest, FlagSet(flags, 1)))

(* let col_count: usize = read_int(buf)?.try_into()?; let paging_state = .. *)
result_metadata_2(flags, col_count) ==
    IF ~IsOk(col_count) THEN Fail(col_count)
    ELSE result_metadata_3(flags, col_count.v,
                           paging_state_of(col_count.rest, FlagSet(flags, 2)))

(* let flags = types::read_int(buf)?; *)
result_metadata_1(flags) ==
    IF ~IsOk(flags) THEN Fail(flags)
    ELSE result_metadata_2(flags.v, try_into_usize(read_int(flags.rest)))

deser_result_metadata(buf) == result_metadata_1(read_int(buf))

PreparedMetadata(col_count, pk_indexes, col_specs) ==
    [col_count |-> col_count, pk_indexes |-> pk_indexes,
     col_specs |-> col_specs]

(* for _ in 0..pk_count { pk_indexes.push(read_short(buf)? as u16) } *)
RECURSIVE deser_pk_indexes(_, _, _)
RECURSIVE pk_index_next(_, _, _)
deser_pk_indexes(buf, n, acc) ==
    IF n = 0 THEN Ok(acc, buf) ELSE pk_index_next(n, acc, read_short(buf))
(* The same with each index put before the ones already read *)
pk_index_next_Mutant(n, acc, i) ==
    IF ~IsOk(i) THEN Fail(i)
    ELSE deser_pk_indexes(i.rest, n - 1, <<i.v>> \o acc)
pk_index_next(n, acc, i) ==
    IF ~IsOk(i) THEN Fail(i)
    ELSE deser_pk_indexes(i.rest, n - 1, Append(acc, i.v))

prepared_metadata_6(col_count, pk_indexes, col_specs) ==
    IF ~IsOk(col_specs) THEN Fail(col_specs)
    ELSE Ok(PreparedMetadata(col_count, pk_indexes, col_specs.v), col_specs.rest)

prepared_metadata_5(col_count, pk_indexes, gts) ==
    IF ~IsOk(gts) THEN Fail(gts)
    ELSE prepared_metadata_6(col_count, pk_indexes,
                             deser_col_specs(gts.rest, gts.v, col_count))

prepared_metadata_4(flags, col_count, pk) ==
    IF ~IsOk(pk) THEN Fail(pk)
    ELSE prepared_metadata_5(col_count, pk.v,
                             global_table_spec_of(pk.rest, FlagSet(flags, 1)))

prepared_metadata_3(flags, col_count, pk_count) ==
    IF ~IsOk(pk_count) THEN Fail(pk_count)
    ELSE prepared_metadata_4(flags, col_count,
                             deser_pk_indexes(pk_count.rest, pk_count.v, <<>>))

prepared_metadata_2(flags, col_count) ==
    IF ~IsOk(col_count) THEN Fail(col_count)
    ELSE prepared_metadata_3(flags, col_count.v,
                             try_into_usize(read_int(col_count.rest)))

prepared_metadata_1(flags) ==
    IF ~IsOk(flags) THEN Fail(flags)
    ELSE prepared_metadata_2(flags.v, read_int_length(flags.rest))

deser_prepared_metadata(buf) == prepared_metadata_1(read_int(buf))

----------------------------------------------------------------------------
(* Rows and the other result kinds                                         *)

(* &metadata.col_specs[i].typ (i counts from 0, sequences here from 1) *)
cell_type_Mutant(metadata, i) == metadata.col_specs[1].typ
cell_type(metadata, i) == metadata.col_specs[i + 1].typ

Row(columns) == [columns |-> columns]

Rows(metadata, rows_count, rows) ==
    [metadata |-> metadata, rows_count |-> rows_count, rows |-> rows]

RECURSIVE deser_columns(_, _, _, _)
RECURSIVE columns_next(_, _, _, _)
RECURSIVE deser_rows_loop(_, _, _, _)
RECURSIVE rows_next(_, _, _, _)

(* for i in 0..metadata.col_count { columns.push(v) } *)
deser_columns(metadata, buf, i, columns) ==
    IF i = metadata.col_count THEN Ok(columns, buf)
    ELSE columns_next(metadata, i, columns,
                      deser_element_opt(cell_type(metadata, i), buf))
columns_next(metadata, i, columns, v) ==
    IF ~IsOk(v) THEN Fail(v)
    ELSE deser_columns(metadata, v.rest, i + 1, Append(columns, v.v))

(* for _ in 0..rows_count { ...; rows.push(Row { columns }) } *)
deser_rows_loop(metadata, buf, n, rows) ==
    IF n = 0 THEN Ok(rows, buf)
    ELSE rows_next(metadata, n, rows, deser_columns(metadata, buf, 0, <<>>))
rows_next(metadata, n, rows, columns) ==
    IF ~IsOk(columns) THEN Fail(columns)
    ELSE deser_rows_loop(metadata, columns.rest, n - 1,
                         Append(rows, Row(columns.v)))

(* Ok(Rows { metadata, rows_count, rows }) *)
rows_3(metadata, rows_count, rows) ==
    IF ~IsOk(rows) THEN Fail(rows)
    ELSE Ok(Rows(metadata, rows_count, rows.v), rows.rest)

rows_2(metadata, rows_count) ==
    IF ~IsOk(rows_count) THEN Fail(rows_count)
    ELSE rows_3(metadata, rows_count.v,
                deser_rows_loop(metadata, rows_count.rest, rows_count.v, <<>>))

(* assert!(metadata.col_count == metadata.col_specs.len()); *)
rows_1(metadata) ==
    IF ~IsOk(metadata) THEN Fail(metadata)
    ELSE IF metadata.v.col_count # Len(metadata.v.col_specs)
         THEN Panic(metadata.rest)
    ELSE rows_2(metadata.v, try_into_usize(read_int(metadata.rest)))

deser_rows(buf) == rows_1(deser_result_metadata(buf))

deser_set_keyspace(buf) == Ok([set_keyspace |-> TRUE], buf)

Prepared(id, prepared_metadata, result_metadata) ==
    [id |-> id, prepared_metadata |-> prepared_metadata,
     result_metadata |-> result_metadata]

prepared_3(id, prepared_metadata, result_metadata) ==
    IF ~IsOk(result_metadata) THEN Fail(result_metadata)
    ELSE Ok(Prepared(id, prepared_metadata, result_metadata.v),
            result_metadata.rest)

prepared_2(id, prepared_metadata) ==
    IF ~IsOk(prepared_metadata) THEN Fail(prepared_metadata)
    ELSE prepared_3(id, prepared_metadata.v,
                    deser_result_metadata(prepared_metadata.rest))

(* let id: Bytes = buf[0..id_len].to_owned().into(); buf.advance(id_len); *)
prepared_1(id_len) ==
    IF ~IsOk(id_len) THEN Fail(id_len)
    ELSE IF id_len.v > Len(id_len.rest) THEN Panic(id_len.rest)
    ELSE prepared_2(Take(id_len.rest, id_len.v),
                    deser_prepared_metadata(Drop(id_len.rest, id_len.v)))

deser_prepared(buf) == prepared_1(read_short(buf))

deser_schema_change(buf) == Ok([schema_change |-> TRUE], buf)

Result(kind, body) == [kind |-> kind, body |-> body]

wrap_result(kind, r) ==
    IF ~IsOk(r) THEN Fail(r) ELSE Ok(Result(kind, r.v), r.rest)

(* match types::read_int(buf)? { ... } *)
result_of_kind(k) ==
    IF ~IsOk(k) THEN Fail(k)
    ELSE IF k.v = 1 THEN Ok(Result("Void", NoVal), k.rest)
    ELSE IF k.v = 2 THEN wrap_result("Rows", deser_rows(k.rest))
    ELSE IF k.v = 3 THEN wrap_result("SetKeyspace", deser_set_keyspace(k.rest))
    ELSE IF k.v = 4 THEN wrap_result("Prepared", deser_prepared(k.rest))
    ELSE IF k.v = 5 THEN wrap_result("SchemaChange", deser_schema_change(k.rest))
    ELSE Err(BadData, k.rest)

deserialize(buf) == result_of_kind(read_int(buf))

----------------------------------------------------------------------------
(* impl CQLValue: the accessors                                            *)

(* match self { Self::V(s) => Some(s), _ => None } *)
as_variant(v, c) == IF v.c = c THEN Some(v.x) ELSE None

as_ascii(v) == as_variant(v, "Ascii")
as_int(v) == as_variant(v, "Int")
as_bigint(v) == as_variant(v, "BigInt")
as_boolean(v) == as_variant(v, "Boolean")
as_counter(v) == as_variant(v, "Counter")
as_smallint(v) == as_variant(v, "SmallInt")
as_tinyint(v) == as_variant(v, "TinyInt")
as_date(v) == as_variant(v, "Date")
as_time(v) == as_variant(v, "Time")
as_timestamp(v) == as_variant(v, "Timestamp")
as_text(v) == as_variant(v, "Text")
as_inet(v) == as_variant(v, "Inet")
as_list(v) == as_variant(v, "List")
as_set(v) == as_variant(v, "Set")

(* Self::Ascii(s) => Some(s), Self::Text(s) => Some(s), _ => None *)
into_string(v) ==
    IF v.c = "Ascii" THEN Some(v.x)
    ELSE IF v.c = "Text" THEN Some(v.x)
    ELSE None

(* The same with the Set arm left out *)
into_vec_Mutant(v) == IF v.c = "List" THEN Some(v.x) ELSE None

(* Self::List(s) => Some(s), Self::Set(s) => Some(s), _ => None *)
into_vec(v) ==
    IF v.c = "List" THEN Some(v.x)
    ELSE IF v.c = "Set" THEN Some(v.x)
    ELSE None

into_pair_vec(v) == as_variant(v, "Map")

Accessors ==
    {"as_ascii", "as_int", "as_bigint", "as_boolean", "as_counter",
     "as_smallint", "as_tinyint", "as_date", "as_time", "as_timestamp",
     "as_text", "into_string", "as_inet", "as_list", "as_set", "into_vec",
     "into_pair_vec"}

(* the method call v.name() *)
call_accessor(name, v) ==
    CASE name = "as_ascii" -> as_ascii(v)
      [] name = "as_int" -> as_int(v)
      [] name = "as_bigint" -> as_bigint(v)
      [] name = "as_boolean" -> as_boolean(v)
      [] name = "as_counter" -> as_counter(v)
      [] name = "as_smallint" -> as_smallint(v)
      [] name = "as_tinyint" -> as_tinyint(v)
      [] name = "as_date" -> as_date(v)
      [] name = "as_time" -> as_time(v)
      [] name = "as_timestamp" -> as_timestamp(v)
      [] name = "as_text" -> as_text(v)
      [] name = "into_string" -> into_string(v)
      [] name = "as_inet" -> as_inet(v)
      [] name = "as_list" -> as_list(v)
      [] name = "as_set" -> as_set(v)
      [] name = "into_vec" -> into_vec(v)
      [] name = "into_pair_vec" -> into_pair_vec(v)

----------------------------------------------------------------------------
(* examples/test-types.rs: the execute loop                                *)
(*                                                                         *)
(* main acquires an owned permit, moves it into a spawned task that awaits *)
(* session.execute, and after the loop acquires and forgets `parallelism`  *)
(* permits.  sem is the number of permits the semaphore has to give,       *)
(* permit tells whether main holds one it has not yet moved into a task,   *)
(* task[t] is the position of the task spawned for the t-th request.       *)

(* let parallelism = 256; for i in 0..100_000usize: both bounded here *)
parallelism == 2
Requests == 4

Tasks == 1..Requests

(* a spawned task owns its permit from the spawn to the drop of _permit *)
holds_permit(t) == task[t] \in {"executing", "returned", "failed"}

example_init ==
    /\ pc = "loop"
    /\ next_i = 0
    /\ permit = FALSE
    /\ sem = parallelism
    /\ task = [t \in Tasks |-> "unspawned"]
    /\ drained = 0

(* let permit = sem.clone().acquire_owned().await; *)
Acquire ==
    /\ pc = "loop" /\ next_i < Requests /\ ~permit
    /\ sem > 0
    /\ sem' = sem - 1
    /\ permit' = TRUE
    /\ UNCHANGED <<pc, next_i, task, drained>>
    /\ UNCHANGED decoder_vars

(* tokio::task::spawn(async move { ... permit ... }); *)
Spawn ==
    /\ pc = "loop" /\ permit
    /\ task' = [task EXCEPT ![next_i + 1] = "executing"]
    /\ permit' = FALSE
    /\ next_i' = next_i + 1
    /\ UNCHANGED <<pc, sem, drained>>
    /\ UNCHANGED decoder_vars

(* the end of for i in 0..100_000usize *)
LoopExit ==
    /\ pc = "loop" /\ next_i = Requests /\ ~permit
    /\ pc' = "drain"
    /\ UNCHANGED <<next_i, permit, sem, task, drained>>
    /\ UNCHANGED decoder_vars

(* session.execute(..).await returns Ok *)
ExecuteReturns(t) ==
    /\ task[t] = "executing"
    /\ task' = [task EXCEPT ![t] = "returned"]
    /\ UNCHANGED <<pc, next_i, permit, sem, drained>>
    /\ UNCHANGED decoder_vars

(* session.execute(..).await returns Err: .unwrap() is about to panic *)
ExecuteFails(t) ==
    /\ task[t] = "executing"
    /\ task' = [task EXCEPT ![t] = "failed"]
    /\ UNCHANGED <<pc, next_i, permit, sem, drained>>
    /\ UNCHANGED decoder_vars

(* The same with the permit dropped while execute is still awaited *)
Release_Mutant(t) ==
    /\ task[t] = "executing"
    /\ task' = [task EXCEPT ![t] = "done"]
    /\ sem' = sem + 1
    /\ UNCHANGED <<pc, next_i, permit, drained>>
    /\ UNCHANGED decoder_vars

(* let _permit = permit; } : the permit is dropped at the end of the task *)
Release(t) ==
    /\ task[t] = "returned"
    /\ task' = [task EXCEPT ![t] = "done"]
    /\ sem' = sem + 1
    /\ UNCHANGED <<pc, next_i, permit, drained>>
    /\ UNCHANGED decoder_vars

(* the panic of .unwrap() drops the task's future and the permit in it *)
Unwind(t) ==
    /\ task[t] = "failed"
    /\ task' = [task EXCEPT ![t] = "panicked"]
    /\ sem' = sem + 1
    /\ UNCHANGED <<pc, next_i, permit, drained>>
    /\ UNCHANGED decoder_vars

(* for _ in 0..parallelism { sem.acquire().await.forget(); } *)
Drain ==
    /\ pc = "drain" /\ drained < parallelism
    /\ sem > 0
    /\ sem' = sem - 1
    /\ drained' = drained + 1
    /\ UNCHANGED <<pc, next_i, permit, task>>
    /\ UNCHANGED decoder_vars

(* println!("Ok."); *)
Finish ==
    /\ pc = "drain" /\ drained = parallelism
    /\ pc' = "end"
    /\ UNCHANGED <<next_i, permit, sem, task, drained>>
    /\ UNCHANGED decoder_vars

MainStep == Acquire \/ Spawn \/ LoopExit \/ Drain \/ Finish
TaskStep(t) == ExecuteReturns(t) \/ ExecuteFails(t) \/ Release(t) \/ Unwind(t)

----------------------------------------------------------------------------
(* Inputs: the wire encoding of frames, written from a description (kept   *)
(* in `ghost`) of what the frame holds.                                    *)

MaxPayload == 17
MaxElems == 2
MaxCols == 2
MaxRows == 2

enc_short(n) == <<(n \div 256) % 256, n % 256>>
enc_int(n) ==
    <<(n \div 16777216) % 256, (n \div 65536) % 256, (n \div 256) % 256, n % 256>>
enc_string(str) == enc_short(Len(str)) \o str

(* a [bytes] item as sent: its length prefix and payload; len < 0 is null *)
Item(data) == [len |-> Len(data), data |-> data]
NullItem == [len |-> -1, data |-> <<>>]
enc_item(it) == enc_int(it.len) \o it.data

RECURSIVE enc_items(_)
enc_items(items) ==
    IF items = <<>> THEN <<>>
    ELSE enc_item(Head(items)) \o enc_items(Tail(items))

TInt == Simple("Int")
TText == Simple("Text")
NameA == <<97>>
NameB == <<98>>
NameKs == <<107, 115>>
NameT == <<116>>

(* payloads of the scalar types: prefixes of a few byte patterns *)
ScalarTypes ==
    {"Ascii", "Int", "BigInt", "Boolean", "Counter", "SmallInt", "TinyInt",
     "Date", "Time", "Timestamp", "Text", "Inet"}

ScalarBases ==
    { [i \in 1..MaxPayload |-> IF i % 4 = 0 THEN 42 ELSE 0],
      [i \in 1..MaxPayload |-> 255],
      [i \in 1..MaxPayload |-> IF i = 1 THEN 127 ELSE 255],
      [i \in 1..MaxPayload |-> IF i = 1 THEN 128 ELSE 0],
      [i \in 1..MaxPayload |-> IF i = 1 THEN 1 ELSE 0],
      [i \in 1..MaxPayload |-> IF i % 2 = 1 THEN 195 ELSE 169],
      [i \in 1..MaxPayload |-> 96 + i] }

ScalarPayloads == {Take(b, n) : b \in ScalarBases, n \in 0..MaxPayload}

(* element payloads of a container, by element type: well-formed ones, a   *)
(* null, ones the element decoder rejects, and ones it does not read to    *)
(* the end                                                                 *)
ElemPool(t) ==
    CASE t = TInt ->
            {Item(<<0, 0, 0, 42>>), Item(<<0, 42>>), NullItem}
      [] t = TText ->
            {Item(<<97, 98>>), Item(<<195, 40>>), NullItem}
      [] t = ListOf(TInt) ->
            {Item(enc_int(1) \o enc_item(Item(<<0, 0, 0, 7>>))),
             Item(enc_int(0) \o <<0, 0, 0, 4>>),
             Item(enc_int(1)),
             NullItem}
      [] OTHER -> {NullItem}

UdtBA == UdtOf(NameKs, NameT, <<(<<NameB, TInt>>), (<<NameA, TText>>)>>)
UdtAA == UdtOf(NameKs, NameT, <<(<<NameA, TInt>>), (<<NameA, TText>>)>>)
UdtAB == UdtOf(NameKs, NameT, <<(<<NameA, TInt>>), (<<NameB, TText>>)>>)

ContainerTypes ==
    {ListOf(TInt), SetOf(TText), ListOf(ListOf(TInt)), MapOf(TInt, TText),
     TupleOf(<<TInt, TText>>), UdtBA, UdtAA, UdtAB}

HasCount(t) == t.t \in {"List", "Set", "Map"}
OptElems(t) == t.t = "UserDefinedType"

(* the element types of the first m element payloads of a container *)
ElemTypes(t, m) ==
    CASE t.t \in {"List", "Set"} -> [i \in 1..m |-> t.a]
      [] t.t = "Map" -> [i \in 1..m |-> IF i % 2 = 1 THEN t.k ELSE t.v]
      [] t.t = "Tuple" -> [i \in 1..m |-> t.types[i]]
      [] t.t = "UserDefinedType" -> [i \in 1..m |-> t.field_types[i][2]]

(* how many element payloads a container of this type may be sent with *)
ElemCounts(t) ==
    CASE t.t \in {"List", "Set"} -> 0..MaxElems
      [] t.t = "Map" -> {m \in 0..MaxElems : m % 2 = 0}
      [] t.t = "Tuple" -> 0..Len(t.types)
      [] t.t = "UserDefinedType" -> 0..Len(t.field_types)

(* the count a container declares for m element payloads *)
DeclaredFull(t, m) ==
    CASE t.t \in {"List", "Set"} -> m
      [] t.t = "Map" -> m \div 2
      [] t.t = "Tuple" -> Len(t.types)
      [] t.t = "UserDefinedType" -> Len(t.field_types)

ItemSeqs(ets) ==
    {its \in [1..Len(ets) -> UNION {ElemPool(ets[i]) : i \in 1..Len(ets)}] :
        \A i \in 1..Len(ets) : its[i] \in ElemPool(ets[i])}

Trails == {<<>>, <<9>>}

enc_container(t, g) ==
    (IF HasCount(t) THEN enc_int(g.declared) ELSE <<>>)
        \o enc_items(g.items) \o g.trail

(* a type the decoder has no arm for, sent with tag id *)
Unknown(id) == [t |-> "Unknown", id |-> id]

TagOf(name) ==
    CASE name = "Ascii" -> 1
      [] name = "BigInt" -> 2
      [] name = "Boolean" -> 4
      [] name = "Counter" -> 5
      [] name = "Int" -> 9
      [] name = "Timestamp" -> 11
      [] name = "Text" -> 13
      [] name = "Inet" -> 16
      [] name = "Date" -> 17
      [] name = "Time" -> 18
      [] name = "SmallInt" -> 19
      [] name = "TinyInt" -> 20

RECURSIVE ConcatAll(_)
ConcatAll(ss) == IF ss = <<>> THEN <<>> ELSE Head(ss) \o ConcatAll(Tail(ss))

RECURSIVE enc_type(_)
enc_type(t) ==
    CASE t.t = "Unknown" -> enc_short(t.id)
      [] t.t = "List" -> enc_short(32) \o enc_type(t.a)
      [] t.t = "Set" -> enc_short(34) \o enc_type(t.a)
      [] t.t = "Map" -> enc_short(33) \o enc_type(t.k) \o enc_type(t.v)
      [] t.t = "UserDefinedType" ->
            enc_short(48) \o enc_string(t.keyspace) \o enc_string(t.type_name)
                \o enc_short(Len(t.field_types))
                \o ConcatAll([i \in 1..Len(t.field_types) |->
                       enc_string(t.field_types[i][1])
                           \o enc_type(t.field_types[i][2])])
      [] t.t = "Tuple" ->
            enc_short(49) \o enc_short(Len(t.types))
                \o ConcatAll([i \in 1..Len(t.types) |-> enc_type(t.types[i])])
      [] OTHER -> enc_short(TagOf(t.t))

(* the tag of the first unknown type met when reading t, or -1 *)
FirstTag(ids) ==
    IF \A i \in 1..Len(ids) : ids[i] = -1 THEN -1
    ELSE ids[CHOOSE i \in 1..Len(ids) :
                 ids[i] # -1 /\ \A j \in 1..(i - 1) : ids[j] = -1]

RECURSIVE FirstUnknown(_)
FirstUnknown(t) ==
    CASE t.t = "Unknown" -> t.id
      [] t.t \in {"List", "Set"} -> FirstUnknown(t.a)
      [] t.t = "Map" -> FirstTag(<<FirstUnknown(t.k), FirstUnknown(t.v)>>)
      [] t.t = "UserDefinedType" ->
            FirstTag([i \in 1..Len(t.field_types) |->
                         FirstUnknown(t.field_types[i][2])])
      [] t.t = "Tuple" ->
            FirstTag([i \in 1..Len(t.types) |-> FirstUnknown(t.types[i])])
      [] OTHER -> -1

GoodTypes == {TInt, TText, ListOf(TInt)}

BadTypes ==
    {Unknown(3), ListOf(Unknown(0)), MapOf(TInt, Unknown(6)),
     TupleOf(<<TText, SetOf(Unknown(12))>>),
     UdtOf(NameKs, NameT, <<(<<NameB, TInt>>), (<<NameA, MapOf(Unknown(21), Unknown(3))>>)>>)}

SeqsUpTo(S, n) == UNION {[1..k -> S] : k \in 0..n}

GoodSchemas == SeqsUpTo(GoodTypes, MaxCols)

(* one column of a type with no arm, alone or after a good column *)
BadSchemas ==
    {<<b>> : b \in BadTypes} \cup {<<TInt, b>> : b \in BadTypes}
        \cup {<<b, TText>> : b \in BadTypes}

GlobalTable == TableSpec(NameKs, NameT)
ColTable(i) == TableSpec(NameKs, <<116, 48 + i>>)
ColName(i) == <<96 + i>>

enc_table_spec(ts) == enc_string(ts.ks_name) \o enc_string(ts.table_name)

enc_col_specs(schema, global) ==
    (IF global THEN enc_table_spec(GlobalTable) ELSE <<>>)
        \o ConcatAll([i \in 1..Len(schema) |->
               (IF global THEN <<>> ELSE enc_table_spec(ColTable(i)))
                   \o enc_string(ColName(i)) \o enc_type(schema[i])])

PagingToken == <<7, 7>>

(* metadata as sent: m.flags, m.schema (col_count is its length), and      *)
(* m.sent: whether the table and column specs are on the wire              *)
enc_metadata(m) ==
    enc_int(m.flags) \o enc_int(Len(m.schema))
        \o (IF (m.flags \div 2) % 2 = 1 THEN enc_item(Item(PagingToken)) ELSE <<>>)
        \o (IF m.sent THEN enc_col_specs(m.schema, m.flags % 2 = 1) ELSE <<>>)

Metas(flagset, schemas, sents) ==
    {[flags |-> f, schema |-> s, sent |-> x] :
        f \in flagset, s \in schemas, x \in sents}

(* a row cell the column's decoder accepts *)
GoodCell(t) ==
    CASE t = TInt -> Item(<<0, 0, 0, 42>>)
      [] t = TText -> Item(<<97, 98>>)
      [] t = ListOf(TInt) -> Item(enc_int(1) \o enc_item(Item(<<0, 0, 0, 7>>)))
      [] OTHER -> NullItem

(* cells that differ from the good cell: at most two of them per frame *)
NoDev == [r |-> 0, c |-> 0, it |-> NullItem]
Devs(schema, nrows) ==
    {NoDev} \cup
    UNION {{[r |-> r, c |-> c, it |-> it] : it \in ElemPool(schema[c])} :
              r \in 1..nrows, c \in 1..Len(schema)}

(* a second deviating cell, after the first in row-major order *)
DevsAfter(schema, nrows, d1) ==
    {NoDev} \cup
    {d \in Devs(schema, nrows) :
        d1.r > 0 /\ (d.r > d1.r \/ (d.r = d1.r /\ d.c > d1.c))}

CellAt(schema, r, c, d1, d2) ==
    IF d1.r = r /\ d1.c = c THEN d1.it
    ELSE IF d2.r = r /\ d2.c = c THEN d2.it
    ELSE GoodCell(schema[c])

CellsOf(schema, nrows, d1, d2) ==
    [r \in 1..nrows |-> [c \in 1..Len(schema) |-> CellAt(schema, r, c, d1, d2)]]

enc_cells(cells) ==
    ConcatAll([r \in 1..Len(cells) |-> enc_items(cells[r])])

(* a Rows frame: kind 2, metadata, rows_count, the cells row by row *)
enc_rows_frame(g) ==
    enc_int(2) \o enc_metadata(g.meta) \o enc_int(g.rows_count)
        \o enc_cells(g.cells) \o g.trail

RowsGhost(m, rc, cells, tr) ==
    [g |-> "rows", meta |-> m, rows_count |-> rc, cells |-> cells, trail |-> tr]

(* a Prepared frame: kind 4, id, prepared metadata, result metadata *)
PkLists == {<<>>, <<0>>, <<1, 0>>}
Ids == {<<>>, <<1>>, <<1, 2>>}

enc_prepared_metadata(p) ==
    enc_int(p.flags) \o enc_int(Len(p.schema)) \o enc_int(Len(p.pk))
        \o ConcatAll([i \in 1..Len(p.pk) |-> enc_short(p.pk[i])])
        \o enc_col_specs(p.schema, p.flags % 2 = 1)

enc_prepared_frame(g) ==
    enc_int(4) \o enc_short(Len(g.id)) \o g.id
        \o enc_prepared_metadata(g.pmeta) \o enc_metadata(g.rmeta)

PreparedGhost(id, p, m) ==
    [g |-> "prepared", id |-> id, pmeta |-> p, rmeta |-> m]

KindBodies == {<<>>, enc_string(NameKs), enc_string(NameKs) \o <<9>>}
Kinds == {1, 3, 5, 0, 6, -1, 257}

(* values of every variant, the collections as the tests of result.rs      *)
(* build them: elements and pairs not in sorted order                      *)
TestVec == <<Val("Int", 20), Val("Int", 2), Val("Int", 13)>>
TestPairs ==
    <<(<<Val("Int", 20), Val("Int", 21)>>), (<<Val("Int", 2), Val("Int", 3)>>)>>

ValuePool ==
    {Val("Ascii", <<97>>), Val("Text", <<98, 97>>), Val("Int", 20),
     Val("BigInt", <<0, 0, 21>>), Val("Boolean", TRUE), Val("Boolean", FALSE),
     Val("Counter", <<0, 0, 22>>), Val("SmallInt", 23), Val("TinyInt", -1),
     Val("Date", 42), Val("Time", <<0, 0, 24>>), Val("Timestamp", <<0, 0, 25>>),
     Val("Inet", <<127, 0, 0, 1>>),
     Val("List", TestVec), Val("List", <<>>), Val("Set", TestVec),
     Val("Set", <<Val("Text", <<98>>), Val("Text", <<97>>)>>),
     Val("Map", TestPairs), Val("Map", <<>>),
     Val("Tuple", <<Val("Int", 20), Val("Text", <<97>>)>>),
     Val("UserDefinedType",
         [keyspace |-> NameKs, type_name |-> NameT,
          fields |-> <<(<<NameA, Some(Val("Int", 20))>>)>>])}

----------------------------------------------------------------------------
Idle == Ok(NoVal, <<>>)

Init ==
    /\ op = "idle"
    /\ input = <<>>
    /\ typ = TInt
    /\ ghost = [g |-> "none"]
    /\ ret = Idle
    /\ example_init

ContainerGhost(d, its, tr) ==
    [g |-> "container", declared |-> d, items |-> its, trail |-> tr]
MetaGhost(m, tr) == [g |-> "metadata", meta |-> m, trail |-> tr]
CutGhost(g, k) == [g |-> "cut", of |-> g, at |-> k]
KindGhost(k, b, n) == [g |-> "kind", kind |-> k, body |-> b, sent |-> n]

(* deser_cql_value on a scalar type and a payload of any length *)
CallValueScalar ==
    /\ op = "idle"
    /\ UNCHANGED example_vars
    /\ \E t \in ScalarTypes, b \in ScalarPayloads :
         /\ op' = "deser_cql_value"
         /\ typ' = Simple(t)
         /\ ghost' = [g |-> "scalar"]
         /\ input' = b
         /\ ret' = deser_cql_value(Simple(t), b)

(* deser_cql_value on a collection, a tuple or a user-defined type *)
CallValueContainer ==
    /\ op = "idle"
    /\ UNCHANGED example_vars
    /\ \E t \in ContainerTypes :
       \E m \in ElemCounts(t) :
       \E its \in ItemSeqs(ElemTypes(t, m)) :
       \E d \in IF HasCount(t)
                THEN {DeclaredFull(t, m), DeclaredFull(t, m) + 1, -1}
                ELSE {DeclaredFull(t, m)} :
       \E tr \in Trails :
         LET g == ContainerGhost(d, its, tr)
         IN  /\ op' = "deser_cql_value"
             /\ typ' = t
             /\ ghost' = g
             /\ input' = enc_container(t, g)
             /\ ret' = deser_cql_value(t, enc_container(t, g))

(* deser_result_metadata on every combination of the flag bits *)
CallResultMetadata ==
    /\ op = "idle"
    /\ UNCHANGED example_vars
    /\ \E m \in Metas(0..7 \cup 16..23, GoodSchemas \cup BadSchemas, BOOLEAN) :
       \E tr \in Trails :
         /\ op' = "deser_result_metadata"
         /\ typ' = TInt
         /\ ghost' = MetaGhost(m, tr)
         /\ input' = enc_metadata(m) \o tr
         /\ ret' = deser_result_metadata(enc_metadata(m) \o tr)

(* deserialize on a Rows frame whose metadata is present *)
CallDeserializeRows ==
    /\ op = "idle"
    /\ UNCHANGED example_vars
    /\ \E m \in Metas({0, 1, 3}, GoodSchemas \cup BadSchemas, {TRUE}) :
       \E n \in 0..MaxRows :
       \E d1 \in Devs(m.schema, n) :
       \E d2 \in IF m.flags = 0 THEN DevsAfter(m.schema, n, d1) ELSE {NoDev} :
       \E rc \in IF d1 = NoDev THEN {n, -1} ELSE {n} :
         LET g == RowsGhost(m, rc, CellsOf(m.schema, n, d1, d2), <<>>)
         IN  /\ op' = "deserialize"
             /\ typ' = TInt
             /\ ghost' = g
             /\ input' = enc_rows_frame(g)
             /\ ret' = deserialize(enc_rows_frame(g))

(* deserialize on a Rows frame sent with no_metadata: no column specs *)
CallDeserializeRowsNoMetadata ==
    /\ op = "idle"
    /\ UNCHANGED example_vars
    /\ \E m \in Metas(4..7, GoodSchemas, {FALSE}) :
       \E n \in 0..MaxRows :
         LET g == RowsGhost(m, n, CellsOf(m.schema, n, NoDev, NoDev), <<>>)
         IN  /\ op' = "deserialize"
             /\ typ' = TInt
             /\ ghost' = g
             /\ input' = enc_rows_frame(g)
             /\ ret' = deserialize(enc_rows_frame(g))

(* deserialize on a well-formed Rows frame followed by one byte, cut short *)
(* at any length                                                           *)
CallDeserializeRowsCut ==
    /\ op = "idle"
    /\ UNCHANGED example_vars
    /\ \E m \in Metas({0, 3}, GoodSchemas, {TRUE}) :
       \E n \in 0..MaxRows :
         LET g == RowsGhost(m, n, CellsOf(m.schema, n, NoDev, NoDev), <<9>>)
         IN  \E k \in 0..Len(enc_rows_frame(g)) :
               /\ op' = "deserialize"
               /\ typ' = TInt
               /\ ghost' = CutGhost(g, k)
               /\ input' = Take(enc_rows_frame(g), k)
               /\ ret' = deserialize(Take(enc_rows_frame(g), k))

(* deserialize on the kinds other than Rows and Prepared *)
CallDeserializeKind ==
    /\ op = "idle"
    /\ UNCHANGED example_vars
    /\ \E k \in Kinds, b \in KindBodies, n \in 0..4 :
         LET buf == Take(enc_int(k), n) \o (IF n = 4 THEN b ELSE <<>>)
         IN  /\ op' = "deserialize"
             /\ typ' = TInt
             /\ ghost' = KindGhost(k, b, n)
             /\ input' = buf
             /\ ret' = deserialize(buf)

PreparedGhosts ==
    {PreparedGhost(id, [flags |-> pf, schema |-> ps, pk |-> pk], m) :
        id \in Ids, pf \in {0, 1}, ps \in SeqsUpTo({TInt, TText}, MaxCols),
        pk \in PkLists,
        m \in Metas({0, 1}, {<<>>, <<TInt>>}, {TRUE})
              \cup Metas({4}, {<<>>, <<TInt>>}, {FALSE})}

(* deserialize on a Prepared frame *)
CallDeserializePrepared ==
    /\ op = "idle"
    /\ UNCHANGED example_vars
    /\ \E g \in PreparedGhosts :
         /\ op' = "deserialize"
         /\ typ' = TInt
         /\ ghost' = g
         /\ input' = enc_prepared_frame(g)
         /\ ret' = deserialize(enc_prepared_frame(g))

(* deserialize on a Prepared frame cut short at any length *)
CallDeserializePreparedCut ==
    /\ op = "idle"
    /\ UNCHANGED example_vars
    /\ \E g \in {x \in PreparedGhosts :
                    x.pmeta.schema = <<TInt>> /\ x.rmeta.schema = <<>>
                        /\ x.rmeta.flags = 0} :
       \E k \in 0..Len(enc_prepared_frame(g)) :
         /\ op' = "deserialize"
         /\ typ' = TInt
         /\ ghost' = CutGhost(g, k)
         /\ input' = Take(enc_prepared_frame(g), k)
         /\ ret' = deserialize(Take(enc_prepared_frame(g), k))

ValueGhost(v) == [g |-> "value", value |-> v]

(* an accessor of CQLValue called on a value of any variant *)
CallAccessor ==
    /\ op = "idle"
    /\ UNCHANGED example_vars
    /\ \E name \in Accessors, v \in ValuePool :
         /\ op' = name
         /\ typ' = TInt
         /\ ghost' = ValueGhost(v)
         /\ input' = <<>>
         /\ ret' = Ok(call_accessor(name, v), <<>>)

Next ==
    \/ CallValueScalar
    \/ CallValueContainer
    \/ CallResultMetadata
    \/ CallDeserializeRows
    \/ CallDeserializeRowsNoMetadata
    \/ CallDeserializeRowsCut
    \/ CallDeserializeKind
    \/ CallDeserializePrepared
    \/ CallDeserializePreparedCut
    \/ CallAccessor

Spec == Init /\ [][Next]_vars

ExampleInit ==
    /\ op = "idle"
    /\ input = <<>>
    /\ typ = TInt
    /\ ghost = [g |-> "none"]
    /\ ret = Idle
    /\ example_init

ExampleNext ==
    \/ Acquire
    \/ Spawn
    \/ LoopExit
    \/ Drain
    \/ Finish
    \/ \E t \in Tasks : ExecuteReturns(t)
    \/ \E t \in Tasks : ExecuteFails(t)
    \/ \E t \in Tasks : Release(t)
    \/ \E t \in Tasks : Unwind(t)

(* the runtime polls every task that can make progress, a released permit  *)
(* wakes the waiting acquire, and every execute call completes             *)
ExampleSpec ==
    /\ ExampleInit
    /\ [][ExampleNext]_vars
    /\ WF_vars(MainStep)
    /\ \A t \in Tasks : WF_vars(TaskStep(t))

----------------------------------------------------------------------------
(* What a frame written from `ghost` holds, item by item                   *)

(* the outcome of decoding one [bytes] item alone, on exactly its own      *)
(* bytes: opt tells whether a null item is read as None (read_bytes_opt)   *)
ItemOutcome(t, it, opt) ==
    IF it.len < 0
    THEN (IF opt THEN Ok(None, <<>>) ELSE Err(BadData, <<>>))
    ELSE IF opt THEN some_of(deser_cql_value(t, it.data))
    ELSE deser_cql_value(t, it.data)

Least(S) == CHOOSE i \in S : \A j \in S : i <= j

(* row-major positions of the cells of a Rows frame *)
CellPos(g) == (1..Len(g.cells)) \X (1..Len(g.meta.schema))
CellOutcome(g, p) ==
    ItemOutcome(g.meta.schema[p[2]], g.cells[p[1]][p[2]], TRUE)
FailingCells(g) == {p \in CellPos(g) : CellOutcome(g, p).st # "Ok"}
FirstCell(S) ==
    CHOOSE p \in S : \A q \in S : p[1] < q[1] \/ (p[1] = q[1] /\ p[2] <= q[2])

SchemaUnknown(schema) ==
    FirstTag([i \in 1..Len(schema) |-> FirstUnknown(schema[i])])

(* C1: no call of deserialize, deser_result_metadata or deser_cql_value    *)
(* ends in a panic: every input gives a decoded value or a ParseError.     *)
C1_NoPanic == ret.st \in {"Ok", "Err"}

(* C2: when a Rows frame decodes, rows holds rows_count rows, every row    *)
(* has col_count entries, and the entry of row r and column c is None for  *)
(* a negative cell length and otherwise Some of the c-th cell of row r     *)
(* decoded with the type of column c.                                      *)
C2_RowsShape ==
    (ghost.g = "rows" /\ ret.st = "Ok") =>
        /\ ret.v.kind = "Rows"
        /\ ret.v.body.rows_count = ghost.rows_count
        /\ Len(ret.v.body.rows) = ghost.rows_count
        /\ ret.v.body.metadata.col_count = Len(ghost.meta.schema)
        /\ \A r \in 1..Len(ret.v.body.rows) :
             /\ Len(ret.v.body.rows[r].columns) = Len(ghost.meta.schema)
             /\ \A c \in 1..Len(ghost.meta.schema) :
                  /\ ret.v.body.metadata.col_specs[c].typ = ghost.meta.schema[c]
                  /\ ret.v.body.rows[r].columns[c]
                        = ItemOutcome(ghost.meta.schema[c],
                                      ghost.cells[r][c], TRUE).v

C2_Witness ==
    /\ ghost.g = "rows" /\ ret.st = "Ok"
    /\ ghost.rows_count = 2
    /\ ghost.meta.schema = <<TText, TInt>>
    /\ ghost.cells[1][2].len < 0
    /\ ghost.cells[2][2].len >= 0
    /\ ret.v.body.rows[1].columns[2] = None
    /\ ret.v.body.rows[2].columns[2] = Some(Val("Int", 42))

(* C3: a Rows frame whose column specs hold a type tag with no arm gives   *)
(* TypeNotImplemented of the first such tag, at any depth; otherwise a     *)
(* negative rows_count gives BadData; otherwise the first cell, in         *)
(* row-major order, whose decode fails gives exactly that failure; a frame *)
(* cut short gives ShortRead; and no failure carries a Rows value.         *)
C3_ErrorsPropagate ==
    /\ ret.st # "Ok" => ret.v = NoVal
    /\ (ghost.g = "rows" /\ ghost.meta.sent) =>
         IF SchemaUnknown(ghost.meta.schema) # -1
         THEN /\ ret.st = "Err"
              /\ ret.err = TypeNotImplemented(SchemaUnknown(ghost.meta.schema))
         ELSE IF ghost.rows_count < 0
         THEN ret.st = "Err" /\ ret.err = BadData
         ELSE IF FailingCells(ghost) # {}
         THEN /\ ret.st = CellOutcome(ghost, FirstCell(FailingCells(ghost))).st
              /\ ret.err = CellOutcome(ghost, FirstCell(FailingCells(ghost))).err
         ELSE ret.st = "Ok"
    /\ (ghost.g = "cut" /\ ghost.of.g = "rows"
            /\ ghost.at < Len(enc_rows_frame(ghost.of)) - 1) =>
         ret.st = "Err" /\ ret.err = ShortRead

C3_Witness ==
    /\ ghost.g = "rows"
    /\ ghost.meta.schema = <<TInt, MapOf(TInt, Unknown(6))>>
    /\ ghost.rows_count = 2
    /\ ret.st = "Err"
    /\ ret.err = TypeNotImplemented(6)
    /\ ret.v = NoVal

(* C4: a decoded user-defined type value has one field entry per declared  *)
(* field, and the entries come in the declared order.                      *)
C4_UdtFieldsInDeclaredOrder ==
    (op = "deser_cql_value" /\ typ.t = "UserDefinedType" /\ ret.st = "Ok") =>
        /\ Len(ret.v.x.fields) = Len(typ.field_types)
        /\ \A i \in 1..Len(typ.field_types) :
             ret.v.x.fields[i][1] = typ.field_types[i][1]

(* C5: deser_cql_value returning Ok has read its sub-slice to the end.     *)
C5_ValueConsumesSlice ==
    (op = "deser_cql_value" /\ ret.st = "Ok") => ret.rest = <<>>

(* a container sent with every element payload its count or type declares *)
Complete(t, g) ==
    /\ g.declared = DeclaredFull(t, Len(g.items))
    /\ ~HasCount(t) => Len(g.items) = g.declared

ElemOutcome(t, g, i) ==
    ItemOutcome(ElemTypes(t, Len(g.items))[i], g.items[i], OptElems(t))
FailingElems(t, g) ==
    {i \in 1..Len(g.items) : ElemOutcome(t, g, i).st # "Ok"}

(* the value of a container whose elements all decode *)
Collected(t, g) ==
    IF t.t = "Map"
    THEN [j \in 1..(Len(g.items) \div 2) |->
             <<ElemOutcome(t, g, 2 * j - 1).v, ElemOutcome(t, g, 2 * j).v>>]
    ELSE [i \in 1..Len(g.items) |-> ElemOutcome(t, g, i).v]

(* C6: every element of a container, and every row cell, is decoded on     *)
(* exactly the bytes of its own length prefix: the outcome is the one of   *)
(* decoding each element alone, the first failing element decides the      *)
(* failure, and after the last element the cursor stands right behind it,  *)
(* however many bytes the nested decodes read.                             *)
C6_NestedDecodeScoped ==
    /\ (ghost.g = "container" /\ Complete(typ, ghost)) =>
         IF FailingElems(typ, ghost) # {}
         THEN /\ ret.st = ElemOutcome(typ, ghost, Least(FailingElems(typ, ghost))).st
              /\ ret.err = ElemOutcome(typ, ghost, Least(FailingElems(typ, ghost))).err
         ELSE /\ ret.st = "Ok"
              /\ ret.rest = ghost.trail
              /\ typ.t # "UserDefinedType" =>
                    ret.v = Val(typ.t, Collected(typ, ghost))
    /\ (ghost.g = "rows" /\ ret.st = "Ok") => ret.rest = ghost.trail
    /\ (ghost.g = "cut" /\ ghost.of.g = "rows"
            /\ ghost.at = Len(enc_rows_frame(ghost.of))) =>
         ret.st = "Ok" /\ ret.rest = ghost.of.trail

C6_Witness ==
    /\ ghost.g = "container"
    /\ typ = ListOf(ListOf(TInt))
    /\ ghost.declared = 2
    /\ ghost.items = <<Item(enc_int(0) \o <<0, 0, 0, 4>>),
                       Item(enc_int(1) \o enc_item(Item(<<0, 0, 0, 7>>)))>>
    /\ ghost.trail = <<9>>
    /\ ret.st = "Ok"
    /\ ret.v = Val("List", <<Val("List", <<>>), Val("List", <<Val("Int", 7)>>)>>)
    /\ ret.rest = <<9>>

(* C7: deserialize reads the kind and the body of that kind: Void stops    *)
(* right behind the kind, SetKeyspace reads the keyspace string,           *)
(* SchemaChange reads its body to the end, and a kind outside 1..5 is      *)
(* BadData.                                                                *)
C7_KindBodyConsumed ==
    (ghost.g = "kind" /\ ghost.sent = 4) =>
        CASE ghost.kind = 1 ->
                ret.st = "Ok" /\ ret.v.kind = "Void" /\ ret.rest = ghost.body
          [] ghost.kind = 3 ->
                ghost.body # <<>> =>
                    /\ ret.st = "Ok" /\ ret.v.kind = "SetKeyspace"
                    /\ ret.rest = Drop(ghost.body, Len(enc_string(NameKs)))
          [] ghost.kind = 5 ->
                ret.st = "Ok" /\ ret.v.kind = "SchemaChange" /\ ret.rest = <<>>
          [] OTHER -> ret.st = "Err" /\ ret.err = BadData

LengthStrict ==
    {"Int", "BigInt", "Counter", "SmallInt", "TinyInt", "Boolean", "Date",
     "Time", "Timestamp", "Inet"}

RequiredLen(name) ==
    CASE name \in {"Int", "Date"} -> {4}
      [] name \in {"BigInt", "Counter", "Time", "Timestamp"} -> {8}
      [] name = "SmallInt" -> {2}
      [] name \in {"TinyInt", "Boolean"} -> {1}
      [] name = "Inet" -> {4, 16}

BigEndian(name, b) ==
    CASE name \in {"Int", "Date"} -> S32(b)
      [] name \in {"BigInt", "Time", "Timestamp"} -> S64(b)
      [] name = "Counter" -> U64(b)
      [] name = "SmallInt" -> S16(b)
      [] name = "TinyInt" -> Signed8(b[1])
      [] name = "Boolean" -> Signed8(b[1]) > 0
      [] name = "Inet" -> b

(* C8: a length-strict scalar whose payload has not the required length is *)
(* BadData, and one of the required length decodes to the big-endian value *)
(* of its bytes.                                                           *)
C8_LengthStrictScalars ==
    (ghost.g = "scalar" /\ typ.t \in LengthStrict) =>
        IF Len(input) \in RequiredLen(typ.t)
        THEN ret.st = "Ok" /\ ret.v = Val(typ.t, BigEndian(typ.t, input))
        ELSE ret.st = "Err" /\ ret.err = BadData

(* C9: a Tuple sent with an element payload per declared type decodes to   *)
(* one entry per type, a null element being an absent entry and any other  *)
(* the element decoded with the type of its position; a Tuple sent with    *)
(* fewer payloads is an error.                                             *)
C9_TupleOptionalEntries ==
    (ghost.g = "container" /\ typ.t = "Tuple") =>
        IF Len(ghost.items) < Len(typ.types) THEN ret.st = "Err"
        ELSE IF \E i \in 1..Len(typ.types) :
                    ItemOutcome(typ.types[i], ghost.items[i], TRUE).st # "Ok"
        THEN ret.st = "Err"
        ELSE /\ ret.st = "Ok"
             /\ Len(ret.v.x) = Len(typ.types)
             /\ \A i \in 1..Len(typ.types) :
                  IF ghost.items[i].len < 0 THEN ret.v.x[i] = None
                  ELSE ret.v.x[i] \in
                          {deser_cql_value(typ.types[i], ghost.items[i].data).v,
                           Some(deser_cql_value(typ.types[i], ghost.items[i].data).v)}

(* C10: deser_result_metadata reads the three flag bits one by one:        *)
(* paging_state is Some exactly when 0x0002 is set; with 0x0004 set        *)
(* col_specs is empty and the cursor stops before any table or column      *)
(* spec, whatever 0x0001 says; with 0x0004 clear col_specs has col_count   *)
(* entries in wire order, each with the one global table spec when 0x0001  *)
(* is set and with its own otherwise.                                      *)
C10_MetadataFlags ==
    (ghost.g = "metadata"
        /\ (FlagSet(ghost.meta.flags, 4) \/ ghost.meta.sent)
        /\ (FlagSet(ghost.meta.flags, 4)
                \/ SchemaUnknown(ghost.meta.schema) = -1)) =>
        /\ ret.st = "Ok"
        /\ ret.v.col_count = Len(ghost.meta.schema)
        /\ ret.v.paging_state
              = (IF FlagSet(ghost.meta.flags, 2) THEN Some(PagingToken) ELSE None)
        /\ IF FlagSet(ghost.meta.flags, 4)
           THEN /\ ret.v.col_specs = <<>>
                /\ ret.rest
                      = (IF ghost.meta.sent
                         THEN enc_col_specs(ghost.meta.schema,
                                            FlagSet(ghost.meta.flags, 1))
                         ELSE <<>>) \o ghost.trail
           ELSE /\ ret.rest = ghost.trail
                /\ ret.v.col_specs
                      = [i \in 1..Len(ghost.meta.schema) |->
                            ColumnSpec(IF FlagSet(ghost.meta.flags, 1)
                                       THEN GlobalTable ELSE ColTable(i),
                                       ColName(i), ghost.meta.schema[i])]

C10_Witness ==
    /\ ghost.g = "metadata"
    /\ ghost.meta.flags = 7
    /\ ghost.meta.sent
    /\ Len(ghost.meta.schema) = 2
    /\ ret.st = "Ok"
    /\ ret.v.col_specs = <<>>
    /\ ret.v.paging_state = Some(PagingToken)
    /\ ret.rest # ghost.trail

(* the ResultMetadata a metadata block written from m decodes to *)
MetaExpected(m) ==
    ResultMetadata(Len(m.schema),
                   IF FlagSet(m.flags, 2) THEN Some(PagingToken) ELSE None,
                   IF FlagSet(m.flags, 4) THEN <<>>
                   ELSE [i \in 1..Len(m.schema) |->
                            ColumnSpec(IF FlagSet(m.flags, 1)
                                       THEN GlobalTable ELSE ColTable(i),
                                       ColName(i), m.schema[i])])

(* C11: a Prepared body is read as id_len, the id, the prepared metadata   *)
(* (flags, col_count, pk_count, the pk indexes, the global table spec if   *)
(* flagged, the column specs) and then the result metadata: the decoded id *)
(* is the id_len bytes sent, pk_indexes the pk_count indexes in the order  *)
(* sent, col_specs the col_count specs sent, and the cursor ends behind    *)
(* the result metadata.                                                    *)
C11_PreparedOrder ==
    (ghost.g = "prepared") =>
        /\ ret.st = "Ok"
        /\ ret.v.kind = "Prepared"
        /\ ret.v.body.id = ghost.id
        /\ ret.v.body.prepared_metadata.col_count = Len(ghost.pmeta.schema)
        /\ ret.v.body.prepared_metadata.pk_indexes = ghost.pmeta.pk
        /\ Len(ret.v.body.prepared_metadata.col_specs)
              = ret.v.body.prepared_metadata.col_count
        /\ ret.v.body.prepared_metadata.col_specs
              = [i \in 1..Len(ghost.pmeta.schema) |->
                    ColumnSpec(IF FlagSet(ghost.pmeta.flags, 1)
                               THEN GlobalTable ELSE ColTable(i),
                               ColName(i), ghost.pmeta.schema[i])]
        /\ ret.v.body.result_metadata = MetaExpected(ghost.rmeta)
        /\ ret.rest = <<>>

C11_Witness ==
    /\ ghost.g = "prepared"
    /\ ghost.id = <<1, 2>>
    /\ ghost.pmeta.pk = <<1, 0>>
    /\ ghost.pmeta.flags = 1
    /\ ghost.pmeta.schema = <<TText, TInt>>
    /\ ghost.rmeta.schema = <<TInt>>
    /\ ret.st = "Ok"
    /\ ret.v.body.id = <<1, 2>>
    /\ ret.v.body.prepared_metadata.pk_indexes = <<1, 0>>
    /\ Len(ret.v.body.prepared_metadata.col_specs) = 2

(* the variants an accessor answers Some for *)
Accepts(name) ==
    CASE name = "as_ascii" -> {"Ascii"}
      [] name = "as_int" -> {"Int"}
      [] name = "as_bigint" -> {"BigInt"}
      [] name = "as_boolean" -> {"Boolean"}
      [] name = "as_counter" -> {"Counter"}
      [] name = "as_smallint" -> {"SmallInt"}
      [] name = "as_tinyint" -> {"TinyInt"}
      [] name = "as_date" -> {"Date"}
      [] name = "as_time" -> {"Time"}
      [] name = "as_timestamp" -> {"Timestamp"}
      [] name = "as_text" -> {"Text"}
      [] name = "into_string" -> {"Ascii", "Text"}
      [] name = "as_inet" -> {"Inet"}
      [] name = "as_list" -> {"List"}
      [] name = "as_set" -> {"Set"}
      [] name = "into_vec" -> {"List", "Set"}
      [] name = "into_pair_vec" -> {"Map"}

(* C12: an accessor answers Some of the stored payload, elements and pairs *)
(* in stored order, exactly for the variants it accepts (into_vec List and *)
(* Set, as_list List, as_set Set, into_pair_vec Map, into_string Ascii and *)
(* Text, as_ascii Ascii, as_text Text), and None for any other variant.    *)
C12_Accessors ==
    (ghost.g = "value") =>
        /\ ret.st = "Ok"
        /\ ret.v = (IF ghost.value.c \in Accepts(op)
                    THEN Some(ghost.value.x) ELSE None)

C12_Witness ==
    /\ ghost.g = "value"
    /\ op = "into_vec"
    /\ ghost.value = Val("Set", TestVec)
    /\ ret.v = Some(<<Val("Int", 20), Val("Int", 2), Val("Int", 13)>>)

(* C13: in the execute loop at most `parallelism` tasks hold a permit, a   *)
(* task gives its permit back only once its execute call has returned,     *)
(* main reaches the end only when no spawned task is in flight, and main   *)
(* does reach the end when every execute call completes.                   *)
C13_ExecuteLoop ==
    /\ [](Cardinality({t \in Tasks : holds_permit(t)}) <= parallelism)
    /\ [][\A t \in Tasks :
            (holds_permit(t) /\ ~holds_permit(t)')
                => task[t] \in {"returned", "failed"}]_vars
    /\ [](pc = "end" =>
            /\ drained = parallelism
            /\ \A t \in Tasks : task[t] \in {"done", "panicked"})
    /\ <>(pc = "end")

C13_Witness ==
    /\ pc = "drain"
    /\ drained = 1
    /\ sem = 0
    /\ Cardinality({t \in Tasks : holds_permit(t)}) = 1
    /\ \E t \in Tasks : task[t] = "panicked"
    /\ \E t \in Tasks : task[t] = "done"

====
